---------------------------- MODULE Spec2Model ----------------------------
(***************************************************************************)
(* A model of the YouTube-to-MP3 services of this repository:              *)
(*   - src/unnamed/part_000 : GET /api/mp3 with the ytmp3free ->           *)
(*                            alternativeService fallback (getMP3Info)     *)
(*   - src/index.js         : GET /api/mp3 with the single ytmp3free call  *)
(*   - src/api/ytmp3.js     : GET /api/download (ffmpeg transcode),        *)
(*                            GET /api/download-mp3 (direct stream) and    *)
(*                            the second GET /api/download (bare pipe)     *)
(* One request is followed from its arrival to the end of its response.    *)
(* URLs are TLA+ strings; a character is a string of length one.           *)
(***************************************************************************)
EXTENDS Integers, Sequences, FiniteSets, TLC

(***************************************************************************)
(* Characters and character classes of the regular expressions.           *)
(***************************************************************************)
Ch(s, i) == SubSeq(s, i, i)

\* does the literal lit occur in s at position i
LitAt(s, lit, i) ==
    /\ i >= 1
    /\ i + Len(lit) - 1 <= Len(s)
    /\ SubSeq(s, i, i + Len(lit) - 1) = lit

\* [a-zA-Z0-9_-]
IdAlphabet ==
    { "a","b","c","d","e","f","g","h","i","j","k","l","m",
      "n","o","p","q","r","s","t","u","v","w","x","y","z",
      "A","B","C","D","E","F","G","H","I","J","K","L","M",
      "N","O","P","Q","R","S","T","U","V","W","X","Y","Z",
      "0","1","2","3","4","5","6","7","8","9","_","-" }

\* \s
Whitespace == { " ", "\t", "\n", "\r", "\f" }

\* the characters . does not match
LineTerminators == { "\n", "\r" }

\* the {11} of every identifier pattern
IdLen == 11

\* [a-zA-Z0-9_-]{11} at position p
StrictIdAt(s, p) ==
    /\ p >= 1
    /\ p + IdLen - 1 <= Len(s)
    /\ \A k \in p .. (p + IdLen - 1) : Ch(s, k) \in IdAlphabet

\* [^"&?\/\s]{11} at position p
LooseIdAt(s, p) ==
    /\ p >= 1
    /\ p + IdLen - 1 <= Len(s)
    /\ \A k \in p .. (p + IdLen - 1) :
          /\ Ch(s, k) \notin { "\"", "&", "?", "/" }
          /\ Ch(s, k) \notin Whitespace

\* every character of s[a..b] is matched by .
AllDot(s, a, b) == \A k \in a .. b : Ch(s, k) \notin LineTerminators

Max(S) == CHOOSE x \in S : \A y \in S : y <= x
Min(S) == CHOOSE x \in S : \A y \in S : x <= y

\* JavaScript undefined / null, kept apart from every string the services see
Undefined == "<undefined>"

\* JavaScript truthiness of a string-or-undefined value
Truthy(v) == v # Undefined /\ v # ""

\* a || b
OrElse(a, b) == IF Truthy(a) THEN a ELSE b

(***************************************************************************)
(* src/api/ytmp3.js isValidYouTubeUrl and src/index.js youtubeRegex:       *)
(*  /^(https?:\/\/)?(www\.)?(youtube\.com\/watch\?v=|youtu\.be\/)          *)
(*    ([a-zA-Z0-9_-]{11})/                                                 *)
(***************************************************************************)
\* positions reachable after the optional (https?:\/\/)
AfterScheme(s) ==
    {1} \cup (IF LitAt(s, "https://", 1) THEN {9} ELSE {})
        \cup (IF LitAt(s, "http://", 1) THEN {8} ELSE {})

\* positions reachable after the optional (www\.)
AfterWww(s, p) == {p} \cup (IF LitAt(s, "www.", p) THEN {p + 4} ELSE {})

\* positions reachable after (youtube\.com\/watch\?v=|youtu\.be\/)
AfterStrictHost(s, p) ==
    (IF LitAt(s, "youtube.com/watch?v=", p) THEN {p + 20} ELSE {})
        \cup (IF LitAt(s, "youtu.be/", p) THEN {p + 9} ELSE {})

isValidYouTubeUrl(url) ==
    \E p1 \in AfterScheme(url) : \E p2 \in AfterWww(url, p1) :
        \E p3 \in AfterStrictHost(url, p2) : StrictIdAt(url, p3)

(***************************************************************************)
(* src/api/ytmp3.js extractVideoId:                                        *)
(*  /(?:youtube\.com\/watch\?v=|youtu\.be\/)([a-zA-Z0-9_-]{11})/           *)
(* unanchored: the leftmost match wins.                                    *)
(***************************************************************************)
StrictMatchStarts(url) ==
    { i \in 1 .. Len(url) : \E p \in AfterStrictHost(url, i) : StrictIdAt(url, p) }

extractVideoIdStrict(url) ==
    IF StrictMatchStarts(url) = {} THEN Undefined
    ELSE LET i == Min(StrictMatchStarts(url))
             p == CHOOSE q \in AfterStrictHost(url, i) : StrictIdAt(url, q)
         IN  SubSeq(url, p, p + IdLen - 1)

(***************************************************************************)
(* src/unnamed/part_000 extractVideoId:                                    *)
(*  /(?:youtube\.com\/(?:[^\/]+\/.+\/|(?:v|e(?:mbed)?)\/|.*[?&]v=)         *)
(*     |youtu\.be\/)([^"&?\/\s]{11})/                                      *)
(* unanchored; at the leftmost start the alternatives are tried in order   *)
(* and the greedy quantifiers give way from the right.                     *)
(***************************************************************************)
\* [^\/]+\/.+\/ from q: the capture starts after a later slash
PathCaptureStarts(s, q) ==
    LET slashes == { k \in q .. Len(s) : Ch(s, k) = "/" }
    IN  IF slashes = {} \/ Min(slashes) = q THEN {}
        ELSE LET j == Min(slashes)
             IN  { k + 1 : k \in { m \in slashes : m >= j + 2 /\ AllDot(s, j + 1, m - 1) } }

\* (?:v|e(?:mbed)?)\/ from q
EmbedCaptureStarts(s, q) ==
    (IF LitAt(s, "v/", q) THEN {q + 2} ELSE {})
        \cup (IF LitAt(s, "embed/", q) THEN {q + 6} ELSE {})
        \cup (IF LitAt(s, "e/", q) THEN {q + 2} ELSE {})

\* .*[?&]v= from q
QueryCaptureStarts(s, q) ==
    { k + 3 : k \in { m \in q .. Len(s) :
                        /\ Ch(s, m) \in { "?", "&" }
                        /\ LitAt(s, "v=", m + 1)
                        /\ AllDot(s, q, m - 1) } }

\* the capture position of the match that starts at i, 0 when none starts there
LooseCaptureAt(s, i) ==
    LET q  == i + 12
        pa == { p \in PathCaptureStarts(s, q) : LooseIdAt(s, p) }
        pb == { p \in EmbedCaptureStarts(s, q) : LooseIdAt(s, p) }
        pc0 == { p \in QueryCaptureStarts(s, q) : LooseIdAt(s, p) }
    IN  IF LitAt(s, "youtube.com/", i) /\ pa # {} THEN Max(pa)
        ELSE IF LitAt(s, "youtube.com/", i) /\ pb # {} THEN Min(pb)
        ELSE IF LitAt(s, "youtube.com/", i) /\ pc0 # {} THEN Max(pc0)
        ELSE IF LitAt(s, "youtu.be/", i) /\ LooseIdAt(s, i + 9) THEN i + 9
        ELSE 0

LooseMatchStarts(url) == { i \in 1 .. Len(url) : LooseCaptureAt(url, i) # 0 }

extractVideoId(url) ==
    IF LooseMatchStarts(url) = {} THEN Undefined
    ELSE LET p == LooseCaptureAt(url, Min(LooseMatchStarts(url)))
         IN  SubSeq(url, p, p + IdLen - 1)

(***************************************************************************)
(* The requests the model sends: a reference string put together from a    *)
(* scheme and subdomain, a host-and-path shape, an identifier and a query  *)
(* tail, plus two inputs that are no URL at all.                           *)
(***************************************************************************)
Prefixes == { "https://www.", "https://", "" }

Shapes ==
    { "youtube.com/watch?v=", "youtu.be/", "youtube.com/embed/",
      "youtube.com/v/", "youtube.com/watch?list=PL1&v=",
      "youtube.com/user/x/", "example.com/?u=youtu.be/" }

SampleIds ==
    { "ArkDQvI_OPE", "KK9bwTlAvgo", "ArkDQvI_OPEx", "abc.def!ghi", "short", "" }

Tails == { "", "&t=10" }

ComposedUrls ==
    { p \o h \o i \o t : p \in Prefixes, h \in Shapes, i \in SampleIds, t \in Tails }

\* "" stands for a request without the parameter (!youtubeUrl, !url)
RequestUrls == ComposedUrls \cup { "", "not a url" }

(***************************************************************************)
(* Upstream payloads (the data of an axios response) and what a service    *)
(* call can come back with: a payload, or a thrown error (axios throws on  *)
(* its 30000 ms timeout, on a transport fault and on an HTTP error status).*)
(***************************************************************************)
NoData ==
    [ kind |-> "none", title |-> Undefined, link |-> Undefined, img |-> Undefined,
      duration |-> Undefined, url |-> Undefined ]

\* an empty body: data is falsy
NullData == [ NoData EXCEPT !.kind = "null" ]

\* what ytmp3free.cc may answer: every combination of a missing, empty or
\* present title and link, and with both present every combination of img
\* and duration
PrimaryPayloads ==
    { [ kind |-> "object", title |-> t, link |-> l, img |-> Undefined,
        duration |-> Undefined, url |-> Undefined ] :
        t \in { Undefined, "", "T" }, l \in { Undefined, "", "https://cdn/a.mp3" } }
      \cup
    { [ kind |-> "object", title |-> "T", link |-> "https://cdn/a.mp3", img |-> i,
        duration |-> d, url |-> Undefined ] :
        i \in { Undefined, "https://img/a.jpg" }, d \in { Undefined, "212" } }
      \cup { NullData }

\* what api.vevioz.com may answer
AlternativePayloads ==
    { [ kind |-> "object", title |-> t, link |-> Undefined, img |-> Undefined,
        duration |-> Undefined, url |-> u ] :
        t \in { Undefined, "T" }, u \in { Undefined, "", "https://cdn/x.mp3" } }
      \cup { NullData }

ThrownMessages == { "timeout of 30000ms exceeded", "Network Error" }

Returned(d) == [ threw |-> FALSE, message |-> Undefined, data |-> d ]
Threw(m) == [ threw |-> TRUE, message |-> m, data |-> NoData ]

PrimaryOutcomes ==
    { Returned(d) : d \in PrimaryPayloads } \cup { Threw(m) : m \in ThrownMessages }

AlternativeOutcomes ==
    { Returned(d) : d \in AlternativePayloads } \cup { Threw(m) : m \in ThrownMessages }

(***************************************************************************)
(* The objects the strategies return and the handlers send as JSON.  One   *)
(* record shape serves all of them; a key a given object does not have is  *)
(* Undefined (JSON.stringify leaves it out), statusKey tells whether the   *)
(* object has a status key at all.                                         *)
(***************************************************************************)
EmptyPayload ==
    [ statusKey |-> FALSE, status |-> FALSE, title |-> Undefined, thumb |-> Undefined,
      duration |-> Undefined, mp3 |-> Undefined, source |-> Undefined,
      videoId |-> Undefined, msg |-> Undefined, error |-> Undefined,
      note |-> Undefined, details |-> Undefined, rawData |-> NoData ]

Failure(msg) == [ EmptyPayload EXCEPT !.statusKey = TRUE, !.status = FALSE, !.msg = msg ]

\* { error: '...' } of src/api/ytmp3.js
ErrorOnly(text) == [ EmptyPayload EXCEPT !.error = text ]

\* { status: false, error: '...' } of the 400 answers
Rejection(text) == [ EmptyPayload EXCEPT !.statusKey = TRUE, !.error = text ]

\* `https://i.ytimg.com/vi/${videoId}/maxresdefault.jpg`
DefaultThumb(videoId) == "https://i.ytimg.com/vi/" \o videoId \o "/maxresdefault.jpg"

\* `${v}` of a value that may be null: the template prints null
Interpolate(v) == IF v = Undefined THEN "null" ELSE v

(***************************************************************************)
(* src/unnamed/part_000 ytmp3free(url): what it returns once axios.get     *)
(* came back with outcome r.                                               *)
(***************************************************************************)
\* the shape check without its !data.link
PrimaryShapeFails_noLink(data) == data.kind # "object" \/ ~Truthy(data.title)

\* !data || !data.title || !data.link  (lines 75, 304)
PrimaryShapeFails(data) ==
    data.kind # "object" \/ ~Truthy(data.title) \/ ~Truthy(data.link)

ytmp3freeApi(videoId) == "https://ytmp3free.cc/@api/json/mp3/" \o Interpolate(videoId)

ytmp3free(videoId, r) ==
    IF r.threw
    THEN [ Failure("Service temporarily unavailable") EXCEPT !.error = r.message ]
    ELSE IF PrimaryShapeFails(r.data)
    THEN [ Failure("No data received from service") EXCEPT !.rawData = r.data ]
    ELSE [ EmptyPayload EXCEPT
             !.statusKey = TRUE,
             !.status = TRUE,
             !.title = r.data.title,
             !.thumb = OrElse(r.data.img, DefaultThumb(videoId)),
             !.duration = r.data.duration,
             !.mp3 = r.data.link,
             !.source = "ytmp3free.cc",
             !.videoId = videoId ]

(***************************************************************************)
(* src/unnamed/part_000 alternativeService(url)                            *)
(***************************************************************************)
alternativeApi(videoId) == "https://api.vevioz.com/api/button/mp3/" \o Interpolate(videoId)

\* data && data.url  (line 116)
AlternativeShapeOk(data) == data.kind = "object" /\ Truthy(data.url)

\* the title taken from the payload instead
AlternativeTitle_fromData(videoId, data) == data.title

\* `YouTube Video ${videoId}`  (line 119)
AlternativeTitle(videoId, data) == "YouTube Video " \o Interpolate(videoId)

alternativeService(videoId, r) ==
    IF r.threw
    THEN Failure("Alternative service error")
    ELSE IF AlternativeShapeOk(r.data)
    THEN [ EmptyPayload EXCEPT
             !.statusKey = TRUE,
             !.status = TRUE,
             !.title = AlternativeTitle(videoId, r.data),
             !.thumb = DefaultThumb(Interpolate(videoId)),
             !.mp3 = r.data.url,
             !.source = "vevioz.com",
             !.videoId = videoId ]
    ELSE Failure("Alternative service failed")

\* the alternative called whatever the primary returned
ShouldFallback_always(result) == TRUE

\* getMP3Info: if (!result.status)  (line 139)
ShouldFallback(result) == ~result.status

(***************************************************************************)
(* src/index.js ytmp3free(url): the whole URL goes into the endpoint.      *)
(***************************************************************************)
\* the characters encodeURIComponent leaves alone besides letters and digits
UnreservedMarks == { "-", "_", ".", "!", "~", "*", "'", "(", ")" }

EncodeChar(c) ==
    IF c \in IdAlphabet \/ c \in UnreservedMarks THEN c
    ELSE CASE c = ":" -> "%3A" [] c = "/" -> "%2F" [] c = "?" -> "%3F"
           [] c = "=" -> "%3D" [] c = "&" -> "%26" [] c = " " -> "%20"
           [] c = "#" -> "%23" [] c = "%" -> "%25" [] c = "+" -> "%2B"
           [] c = "," -> "%2C" [] c = ";" -> "%3B" [] c = "@" -> "%40"
           [] c = "$" -> "%24" [] c = "\"" -> "%22"

RECURSIVE encodeURIComponent(_)
encodeURIComponent(s) ==
    IF s = "" THEN ""
    ELSE EncodeChar(Ch(s, 1)) \o encodeURIComponent(SubSeq(s, 2, Len(s)))

ytmp3freeByUrlApi(u) == "https://ytmp3free.cc/@api/json/mp3/" \o encodeURIComponent(u)

ytmp3freeByUrl(r) ==
    IF r.threw
    THEN [ Failure("Service temporarily unavailable. Please try again later.")
             EXCEPT !.error = r.message ]
    ELSE IF PrimaryShapeFails(r.data)
    THEN Failure("Scrape failed or invalid YouTube URL")
    ELSE [ EmptyPayload EXCEPT
             !.statusKey = TRUE,
             !.status = TRUE,
             !.title = r.data.title,
             !.thumb = r.data.img,
             !.duration = r.data.duration,
             !.mp3 = r.data.link,
             !.source = "ytmp3free.cc" ]

(***************************************************************************)
(* src/api/ytmp3.js: what ytdl.getInfo can come back with, and the file    *)
(* name made of the title.                                                 *)
(***************************************************************************)
VideoTitles == { "Test: Movie? #1", "T", "Song_2 (Live)\t[HD]" }

\* audio: whether ytdl.chooseFormat finds an audio-only format
InfoOutcomes ==
    { [ threw |-> FALSE, message |-> Undefined, title |-> t, audio |-> a ] :
        t \in VideoTitles, a \in BOOLEAN }
      \cup { [ threw |-> TRUE, message |-> "Video unavailable", title |-> Undefined,
               audio |-> FALSE ] }

\* before ytdl.getInfo has answered
NoInfo == [ threw |-> FALSE, message |-> Undefined, title |-> Undefined, audio |-> FALSE ]

\* \w and \s of /[^\w\s]/gi
WordChars == IdAlphabet \ { "-" }

RECURSIVE sanitizeTitle_wordsOnly(_)
sanitizeTitle_wordsOnly(t) ==
    IF t = "" THEN ""
    ELSE (IF Ch(t, 1) \in WordChars THEN Ch(t, 1) ELSE "")
            \o sanitizeTitle_wordsOnly(SubSeq(t, 2, Len(t)))

RECURSIVE sanitizeTitle(_)
sanitizeTitle(t) ==
    IF t = "" THEN ""
    ELSE (IF Ch(t, 1) \in WordChars \cup Whitespace THEN Ch(t, 1) ELSE "")
            \o sanitizeTitle(SubSeq(t, 2, Len(t)))

\* `attachment; filename="${title}.mp3"`
ContentDisposition(title) == "attachment; filename=\"" \o sanitizeTitle(title) \o ".mp3\""

\* the body chunks a delivery writes at most
MaxChunks == 2

(***************************************************************************)
(* src/index.js, the catalog service: strings as JavaScript handles them.  *)
(***************************************************************************)
\* s.includes(sub)
Includes(s, sub) == \E i \in 1 .. (Len(s) + 1) : LitAt(s, sub, i)

\* s.startsWith(sub)
StartsWith(s, sub) == LitAt(s, sub, 1)

RECURSIVE TrimStart(_)
TrimStart(s) ==
    IF s # "" /\ Ch(s, 1) \in Whitespace THEN TrimStart(SubSeq(s, 2, Len(s))) ELSE s

RECURSIVE TrimEnd(_)
TrimEnd(s) ==
    IF s # "" /\ Ch(s, Len(s)) \in Whitespace THEN TrimEnd(SubSeq(s, 1, Len(s) - 1)) ELSE s

\* s.trim()
Trim(s) == TrimEnd(TrimStart(s))

UpperLetters ==
    << "A","B","C","D","E","F","G","H","I","J","K","L","M",
       "N","O","P","Q","R","S","T","U","V","W","X","Y","Z" >>

LowerLetters ==
    << "a","b","c","d","e","f","g","h","i","j","k","l","m",
       "n","o","p","q","r","s","t","u","v","w","x","y","z" >>

LowerOf(c) ==
    IF \E k \in DOMAIN UpperLetters : UpperLetters[k] = c
    THEN LowerLetters[CHOOSE k \in DOMAIN UpperLetters : UpperLetters[k] = c]
    ELSE c

\* s.toLowerCase()
RECURSIVE toLowerCase(_)
toLowerCase(s) ==
    IF s = "" THEN "" ELSE LowerOf(Ch(s, 1)) \o toLowerCase(SubSeq(s, 2, Len(s)))

Digits == { "0","1","2","3","4","5","6","7","8","9" }

\* /(19|20)\d{2}/ matches at position i
YearAt(s, i) ==
    /\ LitAt(s, "19", i) \/ LitAt(s, "20", i)
    /\ i + 3 <= Len(s)
    /\ Ch(s, i + 2) \in Digits
    /\ Ch(s, i + 3) \in Digits

\* extractYear(title): the leftmost match, or null
extractYear(title) ==
    LET starts == { i \in 1 .. Len(title) : YearAt(title, i) }
    IN  IF starts = {} THEN Undefined
        ELSE SubSeq(title, Min(starts), Min(starts) + 3)

BASE_URL == "https://sinhalasub.lk"

\* link.startsWith('http') ? link : BASE_URL + link
AbsoluteLink(link) == IF StartsWith(link, "http") THEN link ELSE BASE_URL \o link

\* `${BASE_URL}/page/${page}/?s=${encodeURIComponent(query)}` with the default page
searchUrl(query) == BASE_URL \o "/page/1/?s=" \o encodeURIComponent(query)

(***************************************************************************)
(* The markup of a fetched page, as cheerio's selections present it.       *)
(*   blocks     : per element of '.post-box, .movie-item, article, .post', *)
(*                what its title anchor, first img and excerpt hold        *)
(*   anchors    : per element of 'a', its href attribute and its text      *)
(*   heading, image, content, paragraphs : the selections of a detail page *)
(* An attribute that is absent is Undefined; a text is the raw text().     *)
(***************************************************************************)
NoMarkup ==
    [ blocks |-> << >>, anchors |-> << >>, heading |-> "", image |-> Undefined,
      content |-> "", paragraphs |-> << >> ]

\* a block of the result: null is Undefined, confidence is a key the code never sets
MovieBlock(title, link, image, description) ==
    [ title |-> title, link |-> AbsoluteLink(link), image |-> image,
      description |-> description, year |-> extractYear(title),
      confidence |-> Undefined ]

\* lines 43-60: the selector pass over one block
PrimaryBlock(b) ==
    LET title == Trim(b.title)
        description == Trim(b.description)
    IN  IF Truthy(title) /\ Truthy(b.link)
        THEN << MovieBlock(title, b.link, OrElse(b.image, Undefined),
                           OrElse(description, "")) >>
        ELSE << >>

RECURSIVE PrimaryPass(_)
PrimaryPass(blocks) ==
    IF blocks = << >> THEN << >>
    ELSE PrimaryBlock(Head(blocks)) \o PrimaryPass(Tail(blocks))

\* text.length > 5
MinTextLength == 5

LongEnough(text) == Len(text) > MinTextLength

\* lines 64-78: the link-mining pass over one anchor
MinedAnchor(a) ==
    LET text == Trim(a.text)
    IN  IF /\ Truthy(a.href)
           /\ Truthy(text)
           /\ Includes(a.href, "/movie/")
           /\ LongEnough(text)
        THEN << MovieBlock(text, a.href, Undefined, "") >>
        ELSE << >>

RECURSIVE SecondaryPass(_)
SecondaryPass(anchors) ==
    IF anchors = << >> THEN << >>
    ELSE MinedAnchor(Head(anchors)) \o SecondaryPass(Tail(anchors))

\* line 63: movies.length === 0
ShouldMineLinks_always(found) == TRUE

ShouldMineLinks(found) == Len(found) = 0

\* lines 38-79: the blocks of a search page
SearchBlocks(page) ==
    LET found == PrimaryPass(page.blocks)
    IN  IF ShouldMineLinks(found) THEN found \o SecondaryPass(page.anchors) ELSE found

(***************************************************************************)
(* What a fetched search page can hold.                                    *)
(***************************************************************************)
\* the sequences over S of length at most n
SeqsUpTo(S, n) == UNION { [ 1 .. k -> S ] : k \in 0 .. n }

\* req.query.query: missing, or a keyword
SearchQueries == { "", "avatar 2009" }

BlockSamples ==
    { [ title |-> " Avatar 2009 ", link |-> "/movie/avatar-2009", image |-> "a.jpg",
        description |-> "Sci-fi" ],
      [ title |-> "Heat", link |-> "https://sinhalasub.lk/movie/heat",
        image |-> Undefined, description |-> "" ],
      [ title |-> "", link |-> "/movie/untitled", image |-> "u.jpg",
        description |-> "" ],
      [ title |-> "Up", link |-> Undefined, image |-> Undefined,
        description |-> "" ] }

AnchorSamples ==
    { [ href |-> "/movie/avatar-2009", text |-> "Avatar 2009" ],
      [ href |-> "https://sinhalasub.lk/movie/heat-1995", text |-> "\n Heat (1995) " ],
      [ href |-> "/movie/zulu1", text |-> " Zulu1 " ],
      [ href |-> "/movie/up", text |-> "Up" ],
      [ href |-> "/category/action", text |-> "Action movies" ],
      [ href |-> Undefined, text |-> "Avatar 2009" ],
      [ href |-> "/movie/untitled", text |-> "" ] }

\* the blocks and the anchors a page holds at most
MaxBlocks == 2

MaxAnchors == 2

SearchPages ==
    { [ NoMarkup EXCEPT !.blocks = b, !.anchors = a ] :
        b \in SeqsUpTo(BlockSamples, MaxBlocks),
        a \in SeqsUpTo(AnchorSamples, MaxAnchors) }

\* axios.get resolves with a page or rejects
Fetched(page) == [ threw |-> FALSE, message |-> Undefined, page |-> page ]

FetchFailed == [ threw |-> TRUE, message |-> "Request failed with status code 404",
                 page |-> NoMarkup ]

\* { error: '...', details: error.message }
ErrorDetails(text, message) == [ ErrorOnly(text) EXCEPT !.details = message ]

(***************************************************************************)
(* src/index.js GET /api/movie: the helpers of lines 224-237 and the       *)
(* extraction of lines 116-155.                                            *)
(***************************************************************************)
\* key, without regard to case, occurs in text at position i
KeyAt(text, key, i) ==
    /\ i >= 1
    /\ i + Len(key) - 1 <= Len(text)
    /\ toLowerCase(SubSeq(text, i, i + Len(key) - 1)) = toLowerCase(key)

\* the last position of the longest run of \s that starts at position e
RunEnd(text, e) ==
    Max({ e - 1 } \cup { p \in e .. Len(text) :
                            \A k \in e .. p : Ch(text, k) \in Whitespace })

\* where ([^\n]+) starts once \s* has matched greedily from e and has given
\* back what it must; 0 when the pattern does not match
CaptureStart(text, e) ==
    LET p == RunEnd(text, e)
        given == { q \in e .. p : Ch(text, q) # "\n" }
    IN  IF p < Len(text) THEN p + 1
        ELSE IF given # {} THEN Max(given)
        ELSE 0

\* the last position of the longest run of [^\n] that starts at position c
CaptureEnd(text, c) ==
    Max({ r \in c .. Len(text) : \A k \in c .. r : Ch(text, k) # "\n" })

\* extractValue(text, key): new RegExp(`${key}\\s*([^\\n]+)`, 'i'), the first
\* group of the leftmost match, trimmed; null without a match
extractValue(text, key) ==
    LET starts == { i \in 1 .. Len(text) :
                      KeyAt(text, key, i) /\ CaptureStart(text, i + Len(key)) # 0 }
        c == CaptureStart(text, Min(starts) + Len(key))
    IN  IF starts = {} THEN Undefined
        ELSE Trim(SubSeq(text, c, CaptureEnd(text, c)))

\* the keys of movie.details and the labels they are read from
DetailLabels ==
    [ year |-> "Year:", genre |-> "Genre:", director |-> "Director:", cast |-> "Cast:",
      quality |-> "Quality:", size |-> "Size:", duration |-> "Duration:" ]

\* details: {}
NoDetails == [ f \in DOMAIN DetailLabels |-> Undefined ]

\* lines 126-135: one paragraph read into the details
ReadParagraph(details, paragraph) ==
    LET text == Trim(paragraph)
    IN  [ f \in DOMAIN DetailLabels |->
            IF Includes(text, DetailLabels[f])
            THEN extractValue(text, DetailLabels[f])
            ELSE details[f] ]

RECURSIVE ReadParagraphs(_, _)
ReadParagraphs(details, paragraphs) ==
    IF paragraphs = << >> THEN details
    ELSE ReadParagraphs(ReadParagraph(details, Head(paragraphs)), Tail(paragraphs))

classifyLinkType_textFirst(text, url) ==
    IF Includes(text, "watch") THEN "stream"
    ELSE IF Includes(url, "drive.google.com") THEN "google_drive"
    ELSE IF Includes(url, "mega.nz") THEN "mega"
    ELSE IF Includes(url, "mediafire.com") THEN "mediafire"
    ELSE IF Includes(url, "dropbox.com") THEN "dropbox"
    ELSE "download"

classifyLinkType(text, url) ==
    IF Includes(url, "drive.google.com") THEN "google_drive"
    ELSE IF Includes(url, "mega.nz") THEN "mega"
    ELSE IF Includes(url, "mediafire.com") THEN "mediafire"
    ELSE IF Includes(url, "dropbox.com") THEN "dropbox"
    ELSE IF Includes(text, "watch") THEN "stream"
    ELSE "download"

\* lines 140-154: the download link of one anchor, if it is taken for one
DownloadLink(a) ==
    LET text == toLowerCase(Trim(a.text))
    IN  IF /\ Truthy(a.href)
           /\ \/ Includes(text, "download")
              \/ Includes(text, "watch")
              \/ Includes(a.href, "drive.google.com")
              \/ Includes(a.href, "mega.nz")
              \/ Includes(a.href, "mediafire.com")
              \/ Includes(a.href, "dropbox")
        THEN << [ provider |-> OrElse(text, "Download"), url |-> a.href,
                  type |-> classifyLinkType(text, a.href) ] >>
        ELSE << >>

RECURSIVE DownloadLinks(_)
DownloadLinks(anchors) ==
    IF anchors = << >> THEN << >>
    ELSE DownloadLink(Head(anchors)) \o DownloadLinks(Tail(anchors))

\* before the page is read
NoMovie ==
    [ title |-> Undefined, image |-> Undefined, description |-> Undefined,
      details |-> NoDetails, downloadLinks |-> << >> ]

\* lines 116-157: the movie object of a detail page
MovieOf(page) ==
    [ title |-> Trim(page.heading),
      image |-> page.image,
      description |-> LET t == Trim(page.content)
                      IN  SubSeq(t, 1, Min({ 500, Len(t) })) \o "...",
      details |-> ReadParagraphs(NoDetails, page.paragraphs),
      downloadLinks |-> DownloadLinks(page.anchors) ]

\* req.query.url: missing, or the address of a detail page
MovieUrls == { "", "https://sinhalasub.lk/movie/avatar-2009" }

LinkSamples ==
    { [ href |-> "https://drive.google.com/x", text |-> "Watch Now" ],
      [ href |-> "https://mega.nz/file/a", text |-> " Download 720p " ],
      [ href |-> "https://www.mediafire.com/file/b", text |-> "Mirror" ],
      [ href |-> "https://www.dropbox.com/s/c", text |-> "" ],
      [ href |-> "https://dl.dropboxusercontent.com/s/c", text |-> "Mirror" ],
      [ href |-> "/watch/avatar-2009", text |-> "Watch Online" ],
      [ href |-> "/get/avatar-2009", text |-> "DOWNLOAD" ],
      [ href |-> "/about", text |-> "About us" ],
      [ href |-> Undefined, text |-> "Download" ] }

\* heading, image, content and paragraphs of a detail page
DetailSamples ==
    { [ NoMarkup EXCEPT !.heading = " Avatar (2009) ", !.image = "a.jpg",
                        !.content = "Year: 2009\nGenre:Action",
                        !.paragraphs = << " Year: 2009 ", "Genre:Action\nCast: Sam W " >> ],
      [ NoMarkup EXCEPT !.heading = "Heat",
                        !.content = "Size:",
                        !.paragraphs = << "Size: 1GB", "Size:" >> ],
      [ NoMarkup EXCEPT !.paragraphs = << "quality: HD Quality: \n4K", "Duration: \n " >> ],
      NoMarkup }

DetailPages ==
    { [ d EXCEPT !.anchors = a ] :
        d \in DetailSamples, a \in SeqsUpTo(LinkSamples, MaxAnchors) }

(***************************************************************************)
(* State.                                                                  *)
(***************************************************************************)
VARIABLES
    variant,      \* the handler that serves the request
    url,          \* req.query.youtubeUrl / url / query ("" when missing)
    pc,           \* where the handler stands
    videoId,      \* the handler's const videoId
    calls,        \* the upstream calls made so far, in order
    attempts,     \* what each strategy call returned, in order
    statusCode,   \* res.statusCode
    headersSent,  \* res.headersSent
    jsonSent,     \* a JSON payload was written with res.json
    body,         \* that payload
    resState,     \* "open", "ended" (res.end), "closed" (the caller left), "reset"
    headers,      \* Content-Disposition and Content-Type set with res.setHeader
    bytesWritten, \* audio chunks written to res
    srcState,     \* the ytdl read stream: "none", "open", "ended", "errored"
    ffmpegState,  \* the ffmpeg process: "none", "running", "exited", "failed", "killed"
    info,         \* what ytdl.getInfo came back with
    markup,       \* the page axios.get fetched for a catalog request
    movies,       \* the movies array of GET /api/search
    minedLinks,   \* the link-mining pass of GET /api/search ran
    movie         \* the movie object of GET /api/movie

vars ==
    << variant, url, pc, videoId, calls, attempts, statusCode, headersSent,
       jsonSent, body, resState, headers, bytesWritten, srcState, ffmpegState,
       info, markup, movies, minedLinks, movie >>

catalogVars == << markup, movies, minedLinks, movie >>

resVars == << statusCode, headersSent, jsonSent, body, resState >>

streamVars == << headers, bytesWritten, srcState, ffmpegState >>

Mp3Variants == { "mp3_fallback", "mp3_single" }

StreamVariants == { "download", "download_mp3", "download_bare" }

CatalogVariants == { "search", "movie" }

Variants == Mp3Variants \cup StreamVariants \cup CatalogVariants

NoHeaders == [ disposition |-> Undefined, contentType |-> Undefined ]

Init ==
    /\ variant \in Variants
    /\ url \in CASE variant = "search" -> SearchQueries
                 [] variant = "movie" -> MovieUrls
                 [] OTHER -> RequestUrls
    /\ pc = "received"
    /\ videoId = Undefined
    /\ calls = << >>
    /\ attempts = << >>
    /\ statusCode = 200
    /\ headersSent = FALSE
    /\ jsonSent = FALSE
    /\ body = EmptyPayload
    /\ resState = "open"
    /\ headers = NoHeaders
    /\ bytesWritten = 0
    /\ srcState = "none"
    /\ ffmpegState = "none"
    /\ info = NoInfo
    /\ markup = NoMarkup
    /\ movies = << >>
    /\ minedLinks = FALSE
    /\ movie = NoMovie

\* res.status(code).json(payload)
SendJson(code, payload) ==
    /\ statusCode' = code
    /\ headersSent' = TRUE
    /\ jsonSent' = TRUE
    /\ body' = payload
    /\ resState' = IF resState = "open" THEN "ended" ELSE resState

Call(svc, id, api) == [ svc |-> svc, videoId |-> id, api |-> api ]

Attempt(svc, r, result) == [ strategy |-> svc, outcome |-> r, result |-> result ]

(***************************************************************************)
(* src/unnamed/part_000 GET /api/mp3                                       *)
(***************************************************************************)
\* lines 177-185: the answer for the result of getMP3Info
Mp3Answer(result, id) ==
    IF result.status
    THEN SendJson(200, result)
    ELSE SendJson(500, [ result EXCEPT
            !.videoId = id,
            !.note = "The service might be temporarily down. Please try again later." ])

\* lines 148-175, into getMP3Info and ytmp3free up to its axios.get
Mp3Receive ==
    /\ variant = "mp3_fallback"
    /\ pc = "received"
    /\ IF ~Truthy(url)
       THEN /\ SendJson(400, Rejection("Missing youtubeUrl parameter"))
            /\ pc' = "done"
            /\ UNCHANGED << videoId, calls >>
       ELSE IF extractVideoId(url) = Undefined
       THEN /\ SendJson(400, Rejection("Invalid YouTube URL"))
            /\ pc' = "done"
            /\ UNCHANGED << videoId, calls >>
       ELSE /\ videoId' = extractVideoId(url)
            /\ calls' = Append(calls, Call("ytmp3free.cc", extractVideoId(url),
                                            ytmp3freeApi(extractVideoId(url))))
            /\ pc' = "await_primary"
            /\ UNCHANGED resVars
    /\ UNCHANGED << variant, url, attempts >>
    /\ UNCHANGED streamVars
    /\ UNCHANGED << info, catalogVars >>

\* ytmp3free resumes (lines 73-100); getMP3Info lines 136-144; then either
\* alternativeService up to its axios.get (lines 104-114) or the answer
PrimaryReturns ==
    /\ variant = "mp3_fallback"
    /\ pc = "await_primary"
    /\ \E r \in PrimaryOutcomes :
        LET result == ytmp3free(extractVideoId(url), r)
        IN  /\ attempts' = Append(attempts, Attempt("ytmp3free.cc", r, result))
            /\ IF ShouldFallback(result)
               THEN /\ calls' = Append(calls, Call("vevioz.com", extractVideoId(url),
                                                    alternativeApi(extractVideoId(url))))
                    /\ pc' = "await_alternative"
                    /\ UNCHANGED resVars
               ELSE /\ Mp3Answer(result, videoId)
                    /\ pc' = "done"
                    /\ UNCHANGED calls
    /\ UNCHANGED << variant, url, videoId >>
    /\ UNCHANGED streamVars
    /\ UNCHANGED << info, catalogVars >>

\* alternativeService resumes (lines 116-130); getMP3Info returns; the answer
AlternativeReturns ==
    /\ variant = "mp3_fallback"
    /\ pc = "await_alternative"
    /\ \E r \in AlternativeOutcomes :
        LET result == alternativeService(extractVideoId(url), r)
        IN  /\ attempts' = Append(attempts, Attempt("vevioz.com", r, result))
            /\ Mp3Answer(result, videoId)
            /\ pc' = "done"
    /\ UNCHANGED << variant, url, videoId, calls >>
    /\ UNCHANGED streamVars
    /\ UNCHANGED << info, catalogVars >>

(***************************************************************************)
(* src/index.js GET /api/mp3                                               *)
(***************************************************************************)
\* lines 327-347, into ytmp3free up to its axios.get (lines 294-302)
Mp3SingleReceive ==
    /\ variant = "mp3_single"
    /\ pc = "received"
    /\ IF ~Truthy(url)
       THEN /\ SendJson(400, Rejection("Missing youtubeUrl parameter"))
            /\ pc' = "done"
            /\ UNCHANGED calls
       ELSE IF ~isValidYouTubeUrl(url)
       THEN /\ SendJson(400, Rejection("Invalid YouTube URL"))
            /\ pc' = "done"
            /\ UNCHANGED calls
       ELSE /\ calls' = Append(calls, Call("ytmp3free.cc", Undefined, ytmp3freeByUrlApi(url)))
            /\ pc' = "await_primary"
            /\ UNCHANGED resVars
    /\ UNCHANGED << variant, url, videoId, attempts >>
    /\ UNCHANGED streamVars
    /\ UNCHANGED << info, catalogVars >>

\* ytmp3free resumes (lines 304-323); the answer (lines 349-353)
Mp3SingleReturns ==
    /\ variant = "mp3_single"
    /\ pc = "await_primary"
    /\ \E r \in PrimaryOutcomes :
        LET result == ytmp3freeByUrl(r)
        IN  /\ attempts' = Append(attempts, Attempt("ytmp3free.cc", r, result))
            /\ SendJson(IF result.status THEN 200 ELSE 500, result)
            /\ pc' = "done"
    /\ UNCHANGED << variant, url, videoId, calls >>
    /\ UNCHANGED streamVars
    /\ UNCHANGED << info, catalogVars >>

(***************************************************************************)
(* src/api/ytmp3.js: stream delivery.  The handlers run to the start of    *)
(* the pipe; from then on the stream events drive the response.            *)
(***************************************************************************)
\* the error handlers without their guard
MayAnswerJson_unguarded == TRUE

\* if (!res.headersSent)  (lines 93, 106, 145, 153)
MayAnswerJson == ~headersSent

\* res.status(500).json(...) behind that guard
AnswerJsonIfNotStarted(payload) ==
    IF MayAnswerJson THEN SendJson(500, payload) ELSE UNCHANGED resVars

\* res.setHeader('Content-Disposition', ...); res.setHeader('Content-Type', ...)
SetDownloadHeaders(title) ==
    headers' = [ disposition |-> ContentDisposition(title), contentType |-> "audio/mpeg" ]

\* a chunk reaches res.write: the headers go out with the first one
WriteChunk ==
    /\ resState = "open"
    /\ bytesWritten < MaxChunks
    /\ bytesWritten' = bytesWritten + 1
    /\ headersSent' = TRUE
    /\ UNCHANGED << statusCode, jsonSent, body, resState >>

\* res.end() called by a pipe whose source ended
EndResponse ==
    /\ resState' = IF resState = "open" THEN "ended" ELSE resState
    /\ headersSent' = TRUE
    /\ UNCHANGED << statusCode, jsonSent, body >>

frozen == << variant, url, videoId, attempts, info, catalogVars >>

(******************** GET /api/download, lines 59-110 **********************)
DownloadReceive ==
    /\ variant = "download"
    /\ pc = "received"
    /\ IF ~Truthy(url)
       THEN /\ SendJson(400, ErrorOnly("URL parameter is required"))
            /\ pc' = "done"
            /\ UNCHANGED << videoId, calls >>
       ELSE IF ~isValidYouTubeUrl(url)
       THEN /\ SendJson(400, ErrorOnly("Invalid YouTube URL"))
            /\ pc' = "done"
            /\ UNCHANGED << videoId, calls >>
       ELSE /\ videoId' = extractVideoIdStrict(url)
            /\ calls' = Append(calls, Call("ytdl.getInfo", Undefined, url))
            /\ pc' = "await_info"
            /\ UNCHANGED resVars
    /\ UNCHANGED << variant, url, attempts >>
    /\ UNCHANGED streamVars
    /\ UNCHANGED << info, catalogVars >>

\* getInfo resumes: lines 72-102, or the catch of lines 104-109
DownloadInfoReturns ==
    /\ variant = "download"
    /\ pc = "await_info"
    /\ \E r \in InfoOutcomes :
        (info' = r) /\
        IF r.threw
        THEN /\ AnswerJsonIfNotStarted(ErrorOnly("Download failed"))
             /\ pc' = "done"
             /\ UNCHANGED << calls, streamVars >>
        ELSE /\ SetDownloadHeaders(r.title)
             /\ calls' = Append(calls, Call("ytdl", Undefined, url))
             /\ srcState' = "open"
             /\ ffmpegState' = "running"
             /\ pc' = "streaming"
             /\ UNCHANGED << resVars, bytesWritten >>
    /\ UNCHANGED << variant, url, videoId, attempts, catalogVars >>

\* ffmpeg's output reaches res through ffmpegCommand.pipe(res, { end: true })
TranscodeOutput ==
    /\ variant = "download"
    /\ pc = "streaming"
    /\ ffmpegState = "running"
    /\ WriteChunk
    /\ UNCHANGED << frozen, pc, calls, headers, srcState, ffmpegState >>

\* the ytdl stream of line 80 has been read to its end
DownloadSourceEnds ==
    /\ variant = "download"
    /\ pc = "streaming"
    /\ srcState = "open"
    /\ srcState' = "ended"
    /\ UNCHANGED << frozen, pc, calls, resVars, headers, bytesWritten, ffmpegState >>

\* ffmpeg finishes: 'end' (lines 97-99) and, with { end: true }, res.end()
TranscodeEnds ==
    /\ variant = "download"
    /\ pc = "streaming"
    /\ ffmpegState = "running"
    /\ srcState = "ended"
    /\ ffmpegState' = "exited"
    /\ EndResponse
    /\ pc' = "done"
    /\ UNCHANGED << frozen, calls, headers, bytesWritten, srcState >>

\* what follows ffmpeg's 'error' (lines 91-96): the handler, then the pipe
\* ends res as the dead process's output ends
AfterTranscodeError ==
    IF MayAnswerJson
    THEN SendJson(500, ErrorOnly("Conversion failed"))
    ELSE EndResponse

\* ffmpeg fails on its input or dies: the process is gone, audioStream is
\* not touched
TranscodeFails ==
    /\ variant = "download"
    /\ pc = "streaming"
    /\ ffmpegState = "running"
    /\ ffmpegState' = "failed"
    /\ AfterTranscodeError
    /\ pc' = "done"
    /\ UNCHANGED << frozen, calls, headers, bytesWritten, srcState >>

\* audioStream emits 'error': ffmpeg(audioStream) reports it as the
\* command's 'error' and kills the process
DownloadSourceFails ==
    /\ variant = "download"
    /\ pc = "streaming"
    /\ srcState = "open"
    /\ srcState' = "errored"
    /\ ffmpegState' = "killed"
    /\ AfterTranscodeError
    /\ pc' = "done"
    /\ UNCHANGED << frozen, calls, headers, bytesWritten >>

\* the caller disconnects: res closes, the command that pipes into it kills
\* ffmpeg and emits 'error' (lines 91-96 run against the closed response)
DownloadCallerLeaves ==
    /\ variant = "download"
    /\ pc = "streaming"
    /\ resState = "open"
    /\ ffmpegState' = "killed"
    /\ resState' = "closed"
    /\ IF MayAnswerJson
       THEN /\ statusCode' = 500
            /\ headersSent' = TRUE
            /\ jsonSent' = TRUE
            /\ body' = ErrorOnly("Conversion failed")
       ELSE UNCHANGED << statusCode, headersSent, jsonSent, body >>
    /\ pc' = "done"
    /\ UNCHANGED << frozen, calls, headers, bytesWritten, srcState >>

(****************** GET /api/download-mp3, lines 113-157 *******************)
DownloadMp3Receive ==
    /\ variant = "download_mp3"
    /\ pc = "received"
    /\ IF ~Truthy(url)
       THEN /\ SendJson(400, ErrorOnly("URL parameter is required"))
            /\ pc' = "done"
            /\ UNCHANGED calls
       ELSE IF ~isValidYouTubeUrl(url)
       THEN /\ SendJson(400, ErrorOnly("Invalid YouTube URL"))
            /\ pc' = "done"
            /\ UNCHANGED calls
       ELSE /\ calls' = Append(calls, Call("ytdl.getInfo", Undefined, url))
            /\ pc' = "await_info"
            /\ UNCHANGED resVars
    /\ UNCHANGED << frozen, streamVars >>

\* getInfo resumes: lines 125-149, or the catch of lines 151-156.  Without a
\* suitable format ytdl.chooseFormat returns nothing (line 134) or throws
\* (into the catch), depending on the library's version
DownloadMp3InfoReturns ==
    /\ variant = "download_mp3"
    /\ pc = "await_info"
    /\ \E r \in InfoOutcomes :
        (info' = r) /\
        IF r.threw
        THEN /\ AnswerJsonIfNotStarted(ErrorOnly("Download failed"))
             /\ pc' = "done"
             /\ UNCHANGED << calls, streamVars >>
        ELSE IF ~r.audio
        THEN /\ \E text \in { "No suitable audio format found", "Download failed" } :
                    SendJson(500, ErrorOnly(text))
             /\ pc' = "done"
             /\ UNCHANGED << calls, streamVars >>
        ELSE /\ SetDownloadHeaders(r.title)
             /\ calls' = Append(calls, Call("ytdl", Undefined, url))
             /\ srcState' = "open"
             /\ pc' = "streaming"
             /\ UNCHANGED << resVars, bytesWritten, ffmpegState >>
    /\ UNCHANGED << variant, url, videoId, attempts, catalogVars >>

\* ytdl(url, ...).pipe(res): a chunk of the source reaches res
PipeChunk ==
    /\ pc = "streaming"
    /\ srcState = "open"
    /\ WriteChunk
    /\ UNCHANGED << frozen, pc, calls, headers, srcState, ffmpegState >>

\* ytdl(url, ...).pipe(res): the source ends and the pipe ends res
PipeEnds ==
    /\ pc = "streaming"
    /\ srcState = "open"
    /\ srcState' = "ended"
    /\ EndResponse
    /\ pc' = "done"
    /\ UNCHANGED << frozen, calls, headers, bytesWritten, ffmpegState >>

\* the caller disconnects: res closes and the pipe lets go of its source,
\* which nothing destroys
PipeCallerLeaves ==
    /\ pc = "streaming"
    /\ resState = "open"
    /\ resState' = "closed"
    /\ pc' = "done"
    /\ UNCHANGED << frozen, calls, statusCode, headersSent, jsonSent, body, streamVars >>

DownloadMp3Data == variant = "download_mp3" /\ PipeChunk

DownloadMp3SourceEnds == variant = "download_mp3" /\ PipeEnds

DownloadMp3CallerLeaves == variant = "download_mp3" /\ PipeCallerLeaves

\* the source emits 'error' (lines 143-148); a pipe does not end its
\* destination when its source fails
DownloadMp3SourceFails ==
    /\ variant = "download_mp3"
    /\ pc = "streaming"
    /\ srcState = "open"
    /\ srcState' = "errored"
    /\ AnswerJsonIfNotStarted(ErrorOnly("Stream failed"))
    /\ pc' = "done"
    /\ UNCHANGED << frozen, calls, headers, bytesWritten, ffmpegState >>

(************** the second GET /api/download, lines 213-240 ****************)
\* ytdl.validateURL belongs to the ytdl-core library: its verdict is an input
BareReceive ==
    /\ variant = "download_bare"
    /\ pc = "received"
    /\ IF ~Truthy(url)
       THEN /\ SendJson(400, ErrorOnly("URL is required"))
            /\ pc' = "done"
            /\ UNCHANGED calls
       ELSE \E valid \in BOOLEAN :
              IF ~valid
              THEN /\ SendJson(400, ErrorOnly("Invalid YouTube URL"))
                   /\ pc' = "done"
                   /\ UNCHANGED calls
              ELSE /\ calls' = Append(calls, Call("ytdl.getInfo", Undefined, url))
                   /\ pc' = "await_info"
                   /\ UNCHANGED resVars
    /\ UNCHANGED << frozen, streamVars >>

\* getInfo resumes: lines 225-234, or the catch of lines 236-239
BareInfoReturns ==
    /\ variant = "download_bare"
    /\ pc = "await_info"
    /\ \E r \in InfoOutcomes :
        (info' = r) /\
        IF r.threw
        THEN /\ SendJson(500, ErrorOnly("Download failed"))
             /\ pc' = "done"
             /\ UNCHANGED << calls, streamVars >>
        ELSE /\ SetDownloadHeaders(r.title)
             /\ calls' = Append(calls, Call("ytdl", Undefined, url))
             /\ srcState' = "open"
             /\ pc' = "streaming"
             /\ UNCHANGED << resVars, bytesWritten, ffmpegState >>
    /\ UNCHANGED << variant, url, videoId, attempts, catalogVars >>

BareData == variant = "download_bare" /\ PipeChunk

BareSourceEnds == variant = "download_bare" /\ PipeEnds

BareCallerLeaves == variant = "download_bare" /\ PipeCallerLeaves

\* the source emits 'error' and no listener is attached (lines 231-234): the
\* event is thrown, the process dies and its connections are reset
BareSourceFails ==
    /\ variant = "download_bare"
    /\ pc = "streaming"
    /\ srcState = "open"
    /\ srcState' = "errored"
    /\ resState' = IF resState = "open" THEN "reset" ELSE resState
    /\ pc' = "crashed"
    /\ UNCHANGED << frozen, calls, statusCode, headersSent, jsonSent, body,
                    headers, bytesWritten, ffmpegState >>

(***************************************************************************)
(* src/index.js GET /api/search, lines 20-95.  url holds req.query.query;  *)
(* the page parameter keeps its default.                                   *)
(***************************************************************************)
SearchReceive ==
    /\ variant = "search"
    /\ pc = "received"
    /\ IF ~Truthy(url)
       THEN /\ SendJson(400, ErrorOnly("Query parameter is required"))
            /\ pc' = "done"
            /\ UNCHANGED calls
       ELSE /\ calls' = Append(calls, Call("sinhalasub", Undefined, searchUrl(url)))
            /\ pc' = "await_page"
            /\ UNCHANGED resVars
    /\ UNCHANGED << variant, url, videoId, attempts, streamVars, info, catalogVars >>

\* axios.get resumes: lines 38-86, or the catch of lines 88-94.  The answer
\* { query, page, totalResults, movies } carries the variable movies.
SearchPageReturns ==
    /\ variant = "search"
    /\ pc = "await_page"
    /\ \E r \in { Fetched(p) : p \in SearchPages } \cup { FetchFailed } :
        IF r.threw
        THEN /\ SendJson(500, ErrorDetails("Failed to fetch search results", r.message))
             /\ UNCHANGED << markup, movies, minedLinks >>
        ELSE /\ markup' = r.page
             /\ movies' = SearchBlocks(r.page)
             /\ minedLinks' = ShouldMineLinks(PrimaryPass(r.page.blocks))
             /\ SendJson(200, EmptyPayload)
    /\ pc' = "done"
    /\ UNCHANGED << variant, url, videoId, calls, attempts, streamVars, info, movie >>

(***************************************************************************)
(* src/index.js GET /api/movie, lines 98-166.                              *)
(***************************************************************************)
MovieReceive ==
    /\ variant = "movie"
    /\ pc = "received"
    /\ IF ~Truthy(url)
       THEN /\ SendJson(400, ErrorOnly("URL parameter is required"))
            /\ pc' = "done"
            /\ UNCHANGED calls
       ELSE /\ calls' = Append(calls, Call("sinhalasub", Undefined, url))
            /\ pc' = "await_page"
            /\ UNCHANGED resVars
    /\ UNCHANGED << variant, url, videoId, attempts, streamVars, info, catalogVars >>

\* axios.get resumes: lines 114-157, or the catch of lines 159-165.  The
\* answer is the variable movie.
MoviePageReturns ==
    /\ variant = "movie"
    /\ pc = "await_page"
    /\ \E r \in { Fetched(p) : p \in DetailPages } \cup { FetchFailed } :
        IF r.threw
        THEN /\ SendJson(500, ErrorDetails("Failed to fetch movie details", r.message))
             /\ UNCHANGED << markup, movie >>
        ELSE /\ markup' = r.page
             /\ movie' = MovieOf(r.page)
             /\ SendJson(200, EmptyPayload)
    /\ pc' = "done"
    /\ UNCHANGED << variant, url, videoId, calls, attempts, streamVars, info,
                    movies, minedLinks >>

Next ==
    \/ Mp3Receive
    \/ PrimaryReturns
    \/ AlternativeReturns
    \/ Mp3SingleReceive
    \/ Mp3SingleReturns
    \/ DownloadReceive
    \/ DownloadInfoReturns
    \/ TranscodeOutput
    \/ DownloadSourceEnds
    \/ TranscodeEnds
    \/ TranscodeFails
    \/ DownloadSourceFails
    \/ DownloadCallerLeaves
    \/ DownloadMp3Receive
    \/ DownloadMp3InfoReturns
    \/ DownloadMp3Data
    \/ DownloadMp3SourceEnds
    \/ DownloadMp3SourceFails
    \/ DownloadMp3CallerLeaves
    \/ BareReceive
    \/ BareInfoReturns
    \/ BareData
    \/ BareSourceEnds
    \/ BareSourceFails
    \/ BareCallerLeaves
    \/ SearchReceive
    \/ SearchPageReturns
    \/ MovieReceive
    \/ MoviePageReturns

Spec == Init /\ [][Next]_vars

(***************************************************************************)
(* Properties.                                                             *)
(***************************************************************************)
\* the strategies of the resolver, in priority order
StrategyOrder == << "ytmp3free.cc", "vevioz.com" >>

Succeeded(a) == a.result.status

\* the first attempt that succeeded, 0 when none did
FirstSuccess ==
    IF \E i \in 1 .. Len(attempts) : Succeeded(attempts[i])
    THEN Min({ i \in 1 .. Len(attempts) : Succeeded(attempts[i]) })
    ELSE 0

\* C1: in the fallback resolver the strategies are called one at a time in
\* priority order (ytmp3free.cc, then vevioz.com); a strategy that failed in
\* any way (thrown error or timeout, empty payload, payload without its
\* required fields) is followed by a call of the next one instead of an
\* answer; a strategy that succeeded is followed by no further call; and
\* the answer is the result of the first strategy that succeeded.
C1_SequentialFallback ==
    variant = "mp3_fallback" =>
        /\ Len(calls) <= Len(StrategyOrder)
        /\ \A i \in 1 .. Len(calls) : calls[i].svc = StrategyOrder[i]
        /\ Len(calls) - Len(attempts) \in { 0, 1 }
        /\ \A i \in 1 .. Len(attempts) :
              /\ attempts[i].strategy = calls[i].svc
              /\ Succeeded(attempts[i]) => Len(calls) = i
              /\ (~Succeeded(attempts[i]) /\ i < Len(StrategyOrder)) => Len(calls) > i
              /\ attempts[i].outcome.threw => ~Succeeded(attempts[i])
              /\ attempts[i].outcome.data.kind = "null" => ~Succeeded(attempts[i])
        /\ (pc = "done" /\ FirstSuccess # 0) =>
              /\ statusCode = 200
              /\ body = attempts[FirstSuccess].result

\* the primary timed out, the alternative succeeded and its result was sent
C1_Witness ==
    /\ variant = "mp3_fallback"
    /\ pc = "done"
    /\ Len(attempts) = 2
    /\ attempts[1].outcome.threw
    /\ attempts[1].outcome.message = "timeout of 30000ms exceeded"
    /\ Succeeded(attempts[2])
    /\ body = attempts[2].result

\* the failure reasons a JSON answer carries
ReasonsCarried(b) == IF Truthy(b.msg) THEN << b.msg >> ELSE << >>

RECURSIVE FailedReasons(_)
\* the reasons of the attempts that failed, in attempt order
FailedReasons(as) ==
    IF as = << >> THEN << >>
    ELSE (IF Succeeded(Head(as)) THEN << >> ELSE << Head(as).result.msg >>)
            \o FailedReasons(Tail(as))

\* C2: the answer of a resolution carries exactly one failure reason per
\* strategy that was attempted and failed, in attempt order.
C2_OneReasonPerFailedAttempt ==
    (variant = "mp3_fallback" /\ pc = "done" /\ Len(attempts) > 0) =>
        ReasonsCarried(body) = FailedReasons(attempts)

\* the primary failed and the alternative returned { url: U, title: T }
SecondaryAnswered ==
    /\ variant = "mp3_fallback"
    /\ pc = "done"
    /\ Len(attempts) = 2
    /\ ~Succeeded(attempts[1])
    /\ ~attempts[2].outcome.threw
    /\ attempts[2].outcome.data.kind = "object"
    /\ Truthy(attempts[2].outcome.data.url)
    /\ Truthy(attempts[2].outcome.data.title)

\* C3 (as amended): when the primary fails and the alternative's payload is
\* { url: U, title: T }, the answer is a success whose media URL is U and
\* whose source is vevioz.com, and whose title is "YouTube Video " followed
\* by the video identifier.
C3_SecondaryResultFields ==
    SecondaryAnswered =>
        /\ statusCode = 200
        /\ body.status
        /\ body.mp3 = attempts[2].outcome.data.url
        /\ body.source = "vevioz.com"
        /\ body.videoId = videoId
        /\ body.title = "YouTube Video " \o videoId

C3_Witness ==
    /\ SecondaryAnswered
    /\ url = "https://youtu.be/ArkDQvI_OPE"
    /\ attempts[2].outcome.data.url = "https://cdn/x.mp3"
    /\ attempts[2].outcome.data.title = "T"

\* C3 as stated: the title of the answer is the T of the payload.
C3_TitleOfPayload ==
    SecondaryAnswered =>
        /\ body.status
        /\ body.mp3 = attempts[2].outcome.data.url
        /\ body.source = "vevioz.com"
        /\ body.title = attempts[2].outcome.data.title

\* the URL field of a strategy's payload
UrlField(a) ==
    IF a.strategy = "ytmp3free.cc" THEN a.outcome.data.link ELSE a.outcome.data.url

\* C4: every successful result, of either strategy and in either /api/mp3
\* handler, has a non-empty title and a non-empty mp3 URL, and a payload
\* without its URL field never gives a success.
C4_SuccessHasTitleAndUrl ==
    /\ \A i \in 1 .. Len(attempts) :
          /\ Succeeded(attempts[i]) =>
                Truthy(attempts[i].result.title) /\ Truthy(attempts[i].result.mp3)
          /\ ~Truthy(UrlField(attempts[i])) => ~Succeeded(attempts[i])
    /\ (variant \in Mp3Variants /\ jsonSent /\ body.status) =>
          Truthy(body.title) /\ Truthy(body.mp3)

\* a payload with a title and no link was turned down, a later one accepted
C4_Witness ==
    /\ pc = "done"
    /\ Len(attempts) = 2
    /\ attempts[1].outcome.data.title = "T"
    /\ attempts[1].outcome.data.link = Undefined
    /\ ~Succeeded(attempts[1])
    /\ Succeeded(attempts[2])
    /\ attempts[2].outcome.data.title = Undefined
    /\ body.status

\* an input with no 11 characters of [A-Za-z0-9_-] right after a "/" or a
\* "=" holds no identifier under any reading of the identifier pattern
HoldsNoIdentifier(u) ==
    ~\E p \in 2 .. Len(u) : Ch(u, p - 1) \in { "/", "=" } /\ StrictIdAt(u, p)

\* the handlers that classify the reference with a pattern of this repository
ClassifyingVariants == { "mp3_fallback", "mp3_single", "download" }

\* C5: an input that fails the identifier pattern is answered with 400 and
\* no strategy or upstream call is made for it.
C5_InvalidReferenceRejected ==
    (variant \in ClassifyingVariants /\ pc # "received" /\ HoldsNoIdentifier(url)) =>
        statusCode = 400 /\ calls = << >>

\* the three URL shapes of an identifier
CanonicalShapes(id) ==
    { "https://www.youtube.com/watch?v=" \o id,
      "https://youtu.be/" \o id,
      "https://www.youtube.com/embed/" \o id }

WellFormedIds == { id \in SampleIds : Len(id) = IdLen /\ StrictIdAt(id, 1) }

\* C6: the three URL shapes of one identifier are all accepted, and all
\* yield that identifier.
C6_ThreeShapesSameId ==
    \A id \in WellFormedIds :
        (variant \in ClassifyingVariants /\ pc # "received" /\ url \in CanonicalShapes(id)) =>
            /\ statusCode # 400
            /\ calls # << >>
            /\ variant \in { "mp3_fallback", "download" } => videoId = id

\* C7: every identifier passed to a strategy is 11 characters of
\* [A-Za-z0-9_-], never null.
C7_IdentifiersWellFormed ==
    variant = "mp3_fallback" =>
        \A i \in 1 .. Len(calls) :
            /\ calls[i].videoId # Undefined
            /\ Len(calls[i].videoId) = IdLen
            /\ StrictIdAt(calls[i].videoId, 1)

\* a source-stream or transcode failure has happened
DeliveryFailed == srcState = "errored" \/ ffmpegState = "failed"

\* C8: in a stream delivery no JSON payload and no status other than 200
\* ever goes out on a response that body bytes were written to; a JSON
\* error (500) is only on responses without a body byte.
C8_JsonErrorOnlyBeforeBytes ==
    variant \in StreamVariants =>
        /\ bytesWritten > 0 => (~jsonSent /\ statusCode = 200)
        /\ (jsonSent /\ statusCode = 500) => bytesWritten = 0

\* a failure after the first bytes, answered with no JSON
C8_Witness ==
    /\ variant \in { "download", "download_mp3" }
    /\ bytesWritten > 0
    /\ DeliveryFailed
    /\ pc = "done"
    /\ ~jsonSent
    /\ statusCode = 200

\* C9: after a source-stream or transcode failure that follows body bytes,
\* the response is ended or torn down, not left open.
C9_FailedDeliveryTerminated ==
    (variant \in StreamVariants /\ bytesWritten > 0 /\ DeliveryFailed) =>
        resState \in { "ended", "reset", "closed" }

\* C10: once a delivery has ended, on whichever path, its source stream is
\* closed and its transcode process is gone.
C10_SubordinatesReleased ==
    (variant \in StreamVariants /\ srcState # "none" /\ resState # "open") =>
        /\ srcState \in { "ended", "errored" }
        /\ ffmpegState \in { "none", "exited", "failed", "killed" }

(***************************************************************************)
(* Catalog search.                                                         *)
(***************************************************************************)
SearchAnswered == variant = "search" /\ pc = "done" /\ statusCode = 200

\* no element of the primary selection has both a title and a link
NoPrimaryMatch ==
    \A i \in DOMAIN markup.blocks :
        ~(Truthy(Trim(markup.blocks[i].title)) /\ Truthy(markup.blocks[i].link))

\* an anchor with an href that contains /movie/ and a text of n characters or more
MarkedAnchor(n) ==
    \E i \in DOMAIN markup.anchors :
        /\ Truthy(markup.anchors[i].href)
        /\ Includes(markup.anchors[i].href, "/movie/")
        /\ Len(Trim(markup.anchors[i].text)) >= n

MovieAnswered == variant = "movie" /\ pc = "done" /\ statusCode = 200

\* C12: no two entries of a detail result's downloadLinks have the same url.
C12_DownloadLinksDistinct ==
    MovieAnswered =>
        \A i, j \in DOMAIN movie.downloadLinks :
            i # j => movie.downloadLinks[i].url # movie.downloadLinks[j].url

LinkTypes == { "google_drive", "mega", "mediafire", "dropbox", "stream", "download" }

\* the known file hosts and the type each stands for
FileHosts ==
    ("drive.google.com" :> "google_drive") @@ ("mega.nz" :> "mega")
        @@ ("mediafire.com" :> "mediafire") @@ ("dropbox.com" :> "dropbox")

\* the host a URL names: what stands between :// and the next /
HostOf(u) ==
    LET marks == { i \in 1 .. Len(u) : LitAt(u, "://", i) }
        from == Min(marks) + 3
        stops == { i \in from .. Len(u) : Ch(u, i) = "/" }
    IN  IF marks = {} THEN ""
        ELSE SubSeq(u, from, IF stops = {} THEN Len(u) ELSE Min(stops) - 1)

\* u is hosted on the domain d or on a subdomain of it
HostedOn(u, d) ==
    LET h == HostOf(u)
    IN  h = d \/ (Len(h) > Len(d) /\ SubSeq(h, Len(h) - Len(d), Len(h)) = "." \o d)

\* type is what the claim gives a link of this text and this URL
TypedByHostThenText(text, u, type) ==
    /\ type \in LinkTypes
    /\ \A d \in DOMAIN FileHosts : HostedOn(u, d) => type = FileHosts[d]
    /\ (\A d \in DOMAIN FileHosts : ~HostedOn(u, d)) =>
          type = IF Includes(text, "watch") THEN "stream" ELSE "download"

\* C13: classifyLinkType returns one of the six fixed types; a URL on a known
\* file host gets the type of its host whatever the link text says; without
\* such a host a text that contains "watch" gives stream and any other text
\* gives download.  Stated of every link of a detail result and, when a
\* detail request arrives, of every text paired with every URL of the
\* sampled anchors.
C13_TypeByHostThenText ==
    /\ MovieAnswered =>
          \A i \in DOMAIN movie.downloadLinks :
              TypedByHostThenText(movie.downloadLinks[i].provider,
                                  movie.downloadLinks[i].url,
                                  movie.downloadLinks[i].type)
    /\ (variant = "movie" /\ pc = "received") =>
          \A a, b \in LinkSamples :
              Truthy(b.href) =>
                  TypedByHostThenText(toLowerCase(Trim(a.text)), b.href,
                      classifyLinkType(toLowerCase(Trim(a.text)), b.href))

\* a detail result holds the link https://drive.google.com/x with the text
\* "watch now" typed google_drive, next to a link typed stream
C13_Witness ==
    /\ MovieAnswered
    /\ \E i, j \in DOMAIN movie.downloadLinks :
          /\ movie.downloadLinks[i].url = "https://drive.google.com/x"
          /\ movie.downloadLinks[i].provider = "watch now"
          /\ movie.downloadLinks[i].type = "google_drive"
          /\ movie.downloadLinks[j].type = "stream"

(***************************************************************************)
(* The file name of a download.                                            *)
(***************************************************************************)
DispositionSet == variant \in StreamVariants /\ headers.disposition # Undefined

\* what stands between filename=" and .mp3" in the Content-Disposition header
FileName ==
    SubSeq(headers.disposition, Len("attachment; filename=\"") + 1,
           Len(headers.disposition) - Len(".mp3\""))

\* the positions of t that hold a word character or a whitespace character
KeptPositions(t) == { i \in 1 .. Len(t) : Ch(t, i) \in WordChars \cup Whitespace }

\* the k-th smallest element of P
NthOf(P, k) == CHOOSE p \in P : Cardinality({ q \in P : q <= p }) = k

\* r is t without its other characters, the kept ones in their order
KeepsWordsAndSpaces(t, r) ==
    /\ Len(r) = Cardinality(KeptPositions(t))
    /\ \A k \in 1 .. Len(r) : Ch(r, k) = Ch(t, NthOf(KeptPositions(t), k))

\* C14: the file name of the Content-Disposition header is the video title
\* without the characters that are neither word nor whitespace characters,
\* the others kept in order ("Test: Movie? #1" gives "Test Movie 1"), and
\* sanitizing a sanitized title changes nothing.
C14_FileNameIsSanitizedTitle ==
    /\ DispositionSet =>
          /\ info.title # Undefined
          /\ headers.disposition = "attachment; filename=\"" \o FileName \o ".mp3\""
          /\ KeepsWordsAndSpaces(info.title, FileName)
          /\ info.title = "Test: Movie? #1" => FileName = "Test Movie 1"
          /\ sanitizeTitle(FileName) = FileName
    /\ (variant \in StreamVariants /\ pc = "await_info") =>
          \A t \in VideoTitles : sanitizeTitle(sanitizeTitle(t)) = sanitizeTitle(t)

\* a download of the video titled "Test: Movie? #1" has written audio under
\* the file name "Test Movie 1"
C14_Witness ==
    /\ DispositionSet
    /\ info.title = "Test: Movie? #1"
    /\ FileName = "Test Movie 1"
    /\ bytesWritten >= 1

=============================================================================
